---- MODULE Spec2Model ----
(***************************************************************************)
(* A state-machine model of the speech delivery pipeline of vocode-python: *)
(*   - the output channel   (output_device/websocket_output_device.py)     *)
(*   - the provider call    (synthesizer/eleven_labs_synthesizer.py,       *)
(*                           create_speech)                                *)
(*   - the lipsync detector (synthesizer/ovrlipsync/ovrlipsync.py)         *)
(*   - the streaming chunk sequence (eleven_labs_synthesizer.py,           *)
(*                           experimental_streaming_output_generator)      *)
(*   - the viseme events of an utterance (detect_lipsync in event mode,    *)
(*                           get_lipsync_events)                           *)
(* Each component has its own specification over its own variables; the    *)
(* variables of the other components keep their initial values.            *)
(***************************************************************************)
EXTENDS Integers, Sequences, FiniteSets, TLC

VARIABLES
  \* ---- output channel (WebsocketOutputDevice)
  active,        \* self.active
  queue,         \* self.queue: the messages put and not yet got
  process_task,  \* where the task running process() is
  must_cancel,   \* process_task.cancel() was called on the pending task
  cur,           \* the (message, span) process() got last
  ws_state,      \* self.ws.client_state
  term,          \* where the call of terminate() is
  enqueued,      \* history: every message put into the queue, in order
  written,       \* history: every message ws.send_text wrote, in order
  ended,         \* history: ids of the messages whose span.end() ran
  calls,         \* number of producer calls made so far
  \* ---- provider call (ElevenLabsSynthesizer.create_speech)
  cs_pc,         \* where the call of create_speech is
  text,          \* message.text
  attempts,      \* attempts
  delay,         \* delay, in milliseconds
  response,      \* response: "none", or the status class of the last one
  requests,      \* history: number of session.request calls issued
  outcomes,      \* history: what the provider did with each request
  sleeps,        \* history: every asyncio.sleep(delay), in milliseconds
  failure,       \* the exception create_speech raised, if any
  \* ---- lipsync detector (OVRLipsyncProcessor; one shared instance)
  lock_holder,   \* self.lock: "free", or the caller that holds it
  process,       \* self.process: 0 for None, else the coprocess's number
  spawned,       \* number of coprocesses created so far
  alive,         \* the coprocesses that are running
  pending,       \* frames written to self.process, response line not read
  pf_pc,         \* per caller: where its process_frame / start call is
  pf_depth,      \* per caller: enclosing process_frame calls (recursion)
  pf_frame,      \* per caller: frame_data of its call
  pf_result,     \* per caller: how its outermost call ended
  pf_faults,     \* per caller: the faults its current call has met
  pf_cancel,     \* per caller: its task was cancelled, not yet delivered
  writes,        \* history: every stdin.write, as (coprocess, frame)
  frames_made,   \* number of process_frame calls made so far
  faults,        \* number of coprocess faults so far
  cancels,       \* number of cancellations so far
  \* ---- streaming chunk sequence (experimental_streaming_output_generator)
  st_pc,         \* where the generator is
  st_span,       \* create_speech_span is not None
  st_lipsync,    \* lipsync_events is not None and self.lipsync_processor
  st_chunk,      \* (wav_chunk, is_last) got last
  st_frames_left, \* detect_lipsync: full frames of the chunk still to do
  st_cancel,     \* the consuming task was cancelled, not yet delivered
  st_cancelled_at, \* history: the wait point where the cancellation arrived
  st_exc,        \* the exception the generator raised to its consumer
  span_ended,    \* create_speech_span.end() ran
  worker,        \* the MiniaudioWorker: "none", "running", "terminated"
  pump,          \* the send_chunks task
  frags_left,    \* fragments the provider response still holds
  in_q,          \* miniaudio_worker.input_queue
  out_q,         \* miniaudio_worker.output_queue
  yielded,       \* history: every ChunkResult yielded, in order
  chunks_made,   \* number of chunks the worker has produced
  utterances,    \* number of chunk sequences started so far
  \* ---- viseme events of one utterance (generator lines 100-110 and
  \* ---- detect_lipsync in event mode); times in ticks of 1/48000 s
  ev_pc,         \* where the generator's lipsync step is
  ev_tpb,        \* ticks per byte: 48000 / self.bytes_per_second
  ev_chunks,     \* number of chunks processed so far
  ev_offset,     \* the generator's audio_offset
  ev_acc,        \* lipsync_events, the utterance's accumulated list
  dl_len,        \* detect_lipsync: len(audio_data)
  dl_byte_offset, \* detect_lipsync: byte_offset
  dl_offset,     \* detect_lipsync: audio_offset
  dl_last,       \* detect_lipsync: last_viseme
  dl_events,     \* detect_lipsync: lipsync_events
  dl_start,      \* history: byte_offset when the loop was entered
  dl_entry,      \* history: audio_offset the call was given
  dl_frames,     \* history: first byte and length of every chunk passed
                 \* to process_frame, in order
  \* ---- one call of a function without state
  fn_pc,         \* "idle", "ready" (arguments chosen) or "returned"
  fn_args,       \* its arguments
  fn_ret         \* what it returned

outVars == <<active, queue, process_task, must_cancel, cur, ws_state, term,
             enqueued, written, ended, calls>>

csVars == <<cs_pc, text, attempts, delay, response, requests, outcomes,
            sleeps, failure>>

lipVars == <<lock_holder, process, spawned, alive, pending, pf_pc, pf_depth,
             pf_frame, pf_result, pf_faults, pf_cancel, writes, frames_made,
             faults, cancels>>

stVars == <<st_pc, st_span, st_lipsync, st_chunk, st_frames_left, st_cancel,
            st_cancelled_at, st_exc, span_ended, worker, pump, frags_left,
            in_q, out_q, yielded, chunks_made, utterances>>

evVars == <<ev_pc, ev_tpb, ev_chunks, ev_offset, ev_acc, dl_len,
            dl_byte_offset, dl_offset, dl_last, dl_events, dl_start,
            dl_entry, dl_frames>>

fnVars == <<fn_pc, fn_args, fn_ret>>

vars == <<outVars, csVars, lipVars, stVars, evVars, fnVars>>

\* what the actions of one component leave alone
notOut == <<csVars, lipVars, stVars, evVars, fnVars>>

notCs == <<outVars, lipVars, stVars, evVars, fnVars>>

notLip == <<outVars, csVars, stVars, evVars, fnVars>>

notSt == <<outVars, csVars, evVars, fnVars>>

notEv == <<outVars, csVars, lipVars, stVars, fnVars>>

notFn == <<outVars, csVars, lipVars, stVars, evVars>>

(***************************************************************************)
(* Bounds of the model                                                     *)
(***************************************************************************)
\* producer calls (consume_nonblocking / consume_transcript) in one run
MaxCalls == 4
\* provider requests of one create_speech call the model follows
MaxRequests == 5
\* process_frame calls in one run
MaxFrames == 3
\* coprocess faults (missed deadline, broken pipe) in one run
MaxFaults == 1
\* task cancellations in one run
MaxCancels == 1
\* fragments of one provider response
Fragments == 2
\* full lipsync frames in one chunk that is not the last
FramesPerChunk == 1
\* chunks of one utterance whose viseme events are followed
MaxChunks == 2
\* events in a list given to the window query
MaxEvents == 2
\* the largest time of a window query
MaxTime == 3
\* utterances spoken one after the other in one run
MaxUtterances == 2
\* bytes in the audio buffer given to trim_audio
MaxBuffer == 6
\* bytes of the stream discarded before the buffer
MaxDiscarded == 2
\* the largest offset and duration of a trim_audio call, in quarters of a
\* second
MaxQuarters == 10
\* samples in the audio given to convert_linear_audio
MaxSamples == 3
\* words of four bytes in the input of the header test
MaxWords == 3

(***************************************************************************)
(* Provider call: create_speech, lines 157-190                             *)
(***************************************************************************)
MaxAttempts == 3

\* delay = 0.5, in milliseconds
InitialDelayMs == 500

\* backoff = 1.8, in tenths
BackoffTenths == 18

Texts == {"hello", "bye"}

NoFailure == [kind |-> "none", text |-> "", tries |-> 0]

CsInit ==
  /\ cs_pc = "idle"
  /\ text = ""
  /\ attempts = 0
  /\ delay = InitialDelayMs
  /\ response = "none"
  /\ requests = 0
  /\ outcomes = <<>>
  /\ sleeps = <<>>
  /\ failure = NoFailure

\* delay = delay * backoff
NextDelayFixed(d) == d

NextDelay(d) == (d * BackoffTenths) \div 10

\* while attempts < max_attempts
LoopContinuesInclusive(a) == a <= MaxAttempts

LoopContinues(a) == a < MaxAttempts

\* create_speech(message, ...) up to its first request
CreateSpeech(t) ==
  /\ cs_pc = "idle"
  /\ text' = t
  /\ attempts' = 0
  /\ delay' = InitialDelayMs
  /\ response' = "none"
  /\ requests' = 1
  /\ cs_pc' = "request"
  /\ UNCHANGED notCs
  /\ UNCHANGED <<outcomes, sleeps, failure>>

\* the request ends with a success status: break, and the result is built
RespondOk ==
  /\ cs_pc = "request"
  /\ outcomes' = Append(outcomes, "ok")
  /\ response' = "ok"
  /\ cs_pc' = "returned"
  /\ UNCHANGED notCs
  /\ UNCHANGED <<text, attempts, delay, requests, sleeps, failure>>

\* the request ends with 429: the warning, then asyncio.sleep(delay)
Respond429 ==
  /\ cs_pc = "request"
  /\ outcomes' = Append(outcomes, "429")
  /\ response' = "429"
  /\ cs_pc' = "sleep"
  /\ UNCHANGED notCs
  /\ UNCHANGED <<text, attempts, delay, requests, sleeps, failure>>

\* the request ends with another failure status: line 180 builds an
\* Exception and does not raise it, so the loop goes round again with
\* attempts and delay as they were
RespondOtherStatus ==
  /\ cs_pc = "request"
  /\ requests < MaxRequests
  /\ outcomes' = Append(outcomes, "other_status")
  /\ response' = "other_status"
  /\ requests' = requests + 1
  /\ cs_pc' = "request"
  /\ UNCHANGED notCs
  /\ UNCHANGED <<text, attempts, delay, sleeps, failure>>

\* asyncio.TimeoutError: response keeps its value, then asyncio.sleep(delay)
RespondTimeout ==
  /\ cs_pc = "request"
  /\ outcomes' = Append(outcomes, "timeout")
  /\ cs_pc' = "sleep"
  /\ UNCHANGED notCs
  /\ UNCHANGED <<text, attempts, delay, response, requests, sleeps, failure>>

\* any other exception of the request is re-raised (lines 186-187)
RespondError ==
  /\ cs_pc = "request"
  /\ outcomes' = Append(outcomes, "error")
  /\ cs_pc' = "raised"
  /\ failure' = [kind |-> "client_error", text |-> "", tries |-> 0]
  /\ UNCHANGED notCs
  /\ UNCHANGED <<text, attempts, delay, response, requests, sleeps>>

\* asyncio.sleep(delay) returns: delay and attempts are updated; the loop
\* condition then decides between the next request and the check of line 189
SleepDone ==
  /\ cs_pc = "sleep"
  /\ sleeps' = Append(sleeps, delay)
  /\ delay' = NextDelay(delay)
  /\ attempts' = attempts + 1
  /\ IF LoopContinues(attempts + 1)
     THEN /\ requests < MaxRequests
          /\ requests' = requests + 1
          /\ cs_pc' = "request"
          /\ UNCHANGED failure
     ELSE /\ cs_pc' = "raised"
          /\ failure' = [kind |-> "failed_after_tries", text |-> text,
                         tries |-> attempts + 1]
          /\ UNCHANGED requests
  /\ UNCHANGED notCs
  /\ UNCHANGED <<text, response, outcomes>>

CsNext ==
  \/ \E t \in Texts : CreateSpeech(t)
  \/ RespondOk
  \/ Respond429
  \/ RespondOtherStatus
  \/ RespondTimeout
  \/ RespondError
  \/ SleepDone

(***************************************************************************)
(* Output channel                                                          *)
(***************************************************************************)
NoMsg == [id |-> 0, kind |-> "none", span |-> FALSE]

\* the task running process() has not finished
TaskPending == process_task \in {"created", "get", "send"}

TaskDone == process_task \in {"done", "cancelled", "failed"}

\* __init__: inactive, an empty queue, no task
OutInit ==
  /\ active = FALSE
  /\ queue = <<>>
  /\ process_task = "none"
  /\ must_cancel = FALSE
  /\ cur = NoMsg
  /\ ws_state = "CONNECTED"
  /\ term = "idle"
  /\ enqueued = <<>>
  /\ written = <<>>
  /\ ended = <<>>
  /\ calls = 0

\* start(): active and a new task for process()
Start ==
  /\ process_task = "none"
  /\ active' = TRUE
  /\ process_task' = "created"
  /\ UNCHANGED notOut
  /\ UNCHANGED <<queue, must_cancel, cur, ws_state, term, enqueued, written,
                 ended, calls>>

\* mark_closed()
MarkClosed ==
  /\ process_task # "none"
  /\ active' = FALSE
  /\ UNCHANGED notOut
  /\ UNCHANGED <<queue, process_task, must_cancel, cur, ws_state, term,
                 enqueued, written, ended, calls>>

\* asyncio.Queue.put_nowait
QueuePut(q, m) == Append(q, m)

\* asyncio.Queue.get on a queue that holds an item: the item and the rest
QueueGetLifo(q) == [msg |-> q[Len(q)], rest |-> SubSeq(q, 1, Len(q) - 1)]

QueueGet(q) == [msg |-> Head(q), rest |-> Tail(q)]

\* a guard that does not look at the transport
MayWriteIfActive == active

\* the guard of the write, line 38
MayWrite == active /\ ws_state # "DISCONNECTED"

\* process() from the top of its loop with queue q, up to its next
\* suspension: the exit when inactive, the wait on an empty queue, or the
\* call of send_text; while active and disconnected every message got is
\* dropped.
RECURSIVE RunLoop(_)
RunLoop(q) ==
  IF ~active THEN [pc |-> "done", q |-> q, m |-> cur]
  ELSE IF q = <<>> THEN [pc |-> "get", q |-> q, m |-> cur]
  ELSE IF MayWrite THEN [pc |-> "send", q |-> QueueGet(q).rest, m |-> QueueGet(q).msg]
  ELSE RunLoop(QueueGet(q).rest)

\* the first step of the task: process() runs to its first suspension
ProcessRun ==
  /\ process_task = "created"
  /\ ~must_cancel
  /\ LET r == RunLoop(queue) IN
       /\ process_task' = r.pc
       /\ queue' = r.q
       /\ cur' = r.m
  /\ UNCHANGED notOut
  /\ UNCHANGED <<active, must_cancel, ws_state, term, enqueued, written,
                 ended, calls>>

\* a process() that takes the message from the queue and goes round its
\* loop without writing it
ProcessWakeDrops ==
  /\ process_task = "get"
  /\ ~must_cancel
  /\ queue # <<>>
  /\ LET g == QueueGet(queue)
         r == RunLoop(g.rest) IN
       /\ process_task' = r.pc
       /\ queue' = r.q
       /\ cur' = IF r.pc = "send" THEN r.m ELSE g.msg
  /\ UNCHANGED notOut
  /\ UNCHANGED <<active, must_cancel, ws_state, term, enqueued, written,
                 ended, calls>>

\* queue.get() returns to the waiting task: the guard of line 38 decides
\* between the write and dropping the message
ProcessWake ==
  /\ process_task = "get"
  /\ ~must_cancel
  /\ queue # <<>>
  /\ LET g == QueueGet(queue) IN
       IF MayWrite
       THEN /\ process_task' = "send"
            /\ queue' = g.rest
            /\ cur' = g.msg
       ELSE LET r == RunLoop(g.rest) IN
            /\ process_task' = r.pc
            /\ queue' = r.q
            /\ cur' = IF r.pc = "send" THEN r.m ELSE g.msg
  /\ UNCHANGED notOut
  /\ UNCHANGED <<active, must_cancel, ws_state, term, enqueued, written,
                 ended, calls>>

\* ws.send_text returns: the message is written, its span is ended, and the
\* loop goes on to its next suspension
SendOk ==
  /\ process_task = "send"
  /\ ~must_cancel
  /\ written' = Append(written, cur)
  /\ ended' = IF cur.span THEN Append(ended, cur.id) ELSE ended
  /\ LET r == RunLoop(queue) IN
       /\ process_task' = r.pc
       /\ queue' = r.q
       /\ cur' = r.m
  /\ UNCHANGED notOut
  /\ UNCHANGED <<active, must_cancel, ws_state, term, enqueued, calls>>

\* ws.send_text raises: process() re-raises and the task ends failed
SendFail ==
  /\ process_task = "send"
  /\ ~must_cancel
  /\ process_task' = "failed"
  /\ UNCHANGED notOut
  /\ UNCHANGED <<active, queue, must_cancel, cur, ws_state, term, enqueued,
                 written, ended, calls>>

\* the cancelled task's next step: CancelledError at its suspension point,
\* logged and re-raised (lines 42-44)
ProcessCancelled ==
  /\ TaskPending
  /\ must_cancel
  /\ process_task' = "cancelled"
  /\ must_cancel' = FALSE
  /\ UNCHANGED notOut
  /\ UNCHANGED <<active, queue, cur, ws_state, term, enqueued, written,
                 ended, calls>>

\* consume_nonblocking(chunk, lipsync_events, span)
ConsumeNonblocking(span) ==
  /\ calls < MaxCalls
  /\ calls' = calls + 1
  /\ IF active
     THEN LET m == [id |-> calls + 1, kind |-> "audio", span |-> span] IN
          /\ queue' = QueuePut(queue, m)
          /\ enqueued' = Append(enqueued, m)
     ELSE UNCHANGED <<queue, enqueued>>
  /\ UNCHANGED notOut
  /\ UNCHANGED <<active, process_task, must_cancel, cur, ws_state, term,
                 written, ended>>

\* consume_transcript(event)
ConsumeTranscript ==
  /\ calls < MaxCalls
  /\ calls' = calls + 1
  /\ IF active
     THEN LET m == [id |-> calls + 1, kind |-> "transcript", span |-> FALSE] IN
          /\ queue' = QueuePut(queue, m)
          /\ enqueued' = Append(enqueued, m)
     ELSE UNCHANGED <<queue, enqueued>>
  /\ UNCHANGED notOut
  /\ UNCHANGED <<active, process_task, must_cancel, cur, ws_state, term,
                 written, ended>>

\* the peer goes away: client_state becomes DISCONNECTED
WsDisconnect ==
  /\ ws_state = "CONNECTED"
  /\ ws_state' = "DISCONNECTED"
  /\ UNCHANGED notOut
  /\ UNCHANGED <<active, queue, process_task, must_cancel, cur, term,
                 enqueued, written, ended, calls>>

\* a terminate() that only marks the channel closed and returns
TerminateCallNoCancel ==
  /\ process_task # "none"
  /\ term = "idle"
  /\ active' = FALSE
  /\ term' = "returned"
  /\ UNCHANGED notOut
  /\ UNCHANGED <<queue, process_task, must_cancel, cur, ws_state, enqueued,
                 written, ended, calls>>

\* terminate() up to its await: mark_closed(), process_task.cancel()
TerminateCall ==
  /\ process_task # "none"
  /\ term = "idle"
  /\ active' = FALSE
  /\ must_cancel' = TaskPending
  /\ term' = "awaiting"
  /\ UNCHANGED notOut
  /\ UNCHANGED <<queue, process_task, cur, ws_state, enqueued, written,
                 ended, calls>>

\* a terminate() that swallows every exception of the task
TerminateReturnSwallows ==
  /\ term = "awaiting"
  /\ TaskDone
  /\ term' = "returned"
  /\ UNCHANGED notOut
  /\ UNCHANGED <<active, queue, process_task, must_cancel, cur, ws_state,
                 enqueued, written, ended, calls>>

\* terminate() after its await: the task has ended; CancelledError is
\* swallowed, any other exception of the task is raised
TerminateReturn ==
  /\ term = "awaiting"
  /\ TaskDone
  /\ term' = IF process_task = "failed" THEN "raised" ELSE "returned"
  /\ UNCHANGED notOut
  /\ UNCHANGED <<active, queue, process_task, must_cancel, cur, ws_state,
                 enqueued, written, ended, calls>>

OutNext ==
  \/ Start
  \/ MarkClosed
  \/ ProcessRun
  \/ ProcessWake
  \/ SendOk
  \/ SendFail
  \/ ProcessCancelled
  \/ \E span \in BOOLEAN : ConsumeNonblocking(span)
  \/ ConsumeTranscript
  \/ WsDisconnect
  \/ TerminateCall
  \/ TerminateReturn

(***************************************************************************)
(* Lipsync detector: OVRLipsyncProcessor.start / close / process_frame     *)
(***************************************************************************)
\* the tasks that use the shared detector (one per utterance being spoken)
Callers == {"u1", "u2"}

NoResult == [kind |-> "none_yet", frame |-> 0, proc |-> 0]

\* __init__: no coprocess, a free lock
LipInit ==
  /\ lock_holder = "free"
  /\ process = 0
  /\ spawned = 0
  /\ alive = {}
  /\ pending = <<>>
  /\ pf_pc = [c \in Callers |-> "idle"]
  /\ pf_depth = [c \in Callers |-> 0]
  /\ pf_frame = [c \in Callers |-> 0]
  /\ pf_result = [c \in Callers |-> NoResult]
  /\ pf_faults = [c \in Callers |-> <<>>]
  /\ pf_cancel = [c \in Callers |-> FALSE]
  /\ writes = <<>>
  /\ frames_made = 0
  /\ faults = 0
  /\ cancels = 0

\* the caller is between calls
AtRest(c) == pf_pc[c] \in {"idle", "done"}

\* asyncio.Lock: acquire() succeeds only on an unlocked lock, whoever asks
LockFree(c) == lock_holder = "free"

\* the end of a call: every enclosing `async with self.lock` is left, so
\* the lock held by c is released
Released(c) == IF lock_holder = c THEN "free" ELSE lock_holder

\* process_frame inside `async with self.lock`, from `try:` to its first
\* suspension: the frame is written and drain() awaited; with no coprocess
\* the write raises AttributeError, close() does nothing and start() is
\* awaited
TryBody(c, f) ==
  /\ lock_holder' = c
  /\ IF process = 0
     THEN /\ pf_pc' = [pf_pc EXCEPT ![c] = "start"]
          /\ UNCHANGED <<pending, writes>>
     ELSE /\ pending' = Append(pending, f)
          /\ writes' = Append(writes, <<process, f>>)
          /\ pf_pc' = [pf_pc EXCEPT ![c] = "drain"]

\* a call of process_frame(frame_data) by a caller at rest, up to its first
\* suspension: the wait for the lock, or the await inside the try
ProcessFrameBody(c) ==
  /\ frames_made' = frames_made + 1
  /\ pf_frame' = [pf_frame EXCEPT ![c] = frames_made + 1]
  /\ pf_result' = [pf_result EXCEPT ![c] = NoResult]
  /\ pf_faults' = [pf_faults EXCEPT ![c] = <<>>]
  /\ pf_depth' = [pf_depth EXCEPT ![c] = 0]
  /\ IF LockFree(c)
     THEN TryBody(c, frames_made + 1)
     ELSE /\ pf_pc' = [pf_pc EXCEPT ![c] = "lock"]
          /\ UNCHANGED <<lock_holder, pending, writes>>
  /\ UNCHANGED <<process, spawned, alive, pf_cancel, faults, cancels>>

\* process_frame called by a task that uses the detector directly
ProcessFrameCall(c) ==
  /\ AtRest(c)
  /\ frames_made < MaxFrames
  /\ ProcessFrameBody(c)
  /\ UNCHANGED notLip

\* lock.acquire() returns to a waiting call
Acquire(c) ==
  /\ pf_pc[c] = "lock"
  /\ ~pf_cancel[c]
  /\ LockFree(c)
  /\ TryBody(c, pf_frame[c])
  /\ UNCHANGED notLip
  /\ UNCHANGED <<process, spawned, alive, pf_depth, pf_frame, pf_result,
                 pf_faults, pf_cancel, frames_made, faults, cancels>>

\* stdin.drain() returns: readline() is awaited under wait_for
DrainDone(c) ==
  /\ pf_pc[c] = "drain"
  /\ ~pf_cancel[c]
  /\ pf_pc' = [pf_pc EXCEPT ![c] = "read"]
  /\ UNCHANGED notLip
  /\ UNCHANGED <<lock_holder, process, spawned, alive, pending, pf_depth,
                 pf_frame, pf_result, pf_faults, pf_cancel, writes,
                 frames_made, faults, cancels>>

\* `except Exception`: close() closes stdin and awaits process.wait()
Recover(c, fault) ==
  /\ faults < MaxFaults
  /\ faults' = faults + 1
  /\ pf_faults' = [pf_faults EXCEPT ![c] = Append(pf_faults[c], fault)]
  /\ pf_pc' = [pf_pc EXCEPT ![c] = "close"]
  /\ UNCHANGED notLip
  /\ UNCHANGED <<lock_holder, process, spawned, alive, pending, pf_depth,
                 pf_frame, pf_result, pf_cancel, writes, frames_made, cancels>>

\* the coprocess has crashed: drain() raises (broken pipe)
DrainFail(c) ==
  /\ pf_pc[c] = "drain"
  /\ ~pf_cancel[c]
  /\ Recover(c, "crash")

\* the coprocess misses the deadline: wait_for raises TimeoutError
ReadTimeout(c) ==
  /\ pf_pc[c] = "read"
  /\ ~pf_cancel[c]
  /\ Recover(c, "timeout")

\* readline() returns the coprocess's next response line, which answers the
\* oldest frame it has not answered yet; the call returns it and every
\* enclosing call returns it in turn
ReadLine(c) ==
  /\ pf_pc[c] = "read"
  /\ ~pf_cancel[c]
  /\ pending # <<>>
  /\ pf_result' = [pf_result EXCEPT
                     ![c] = [kind |-> "line", frame |-> Head(pending),
                             proc |-> process]]
  /\ pending' = Tail(pending)
  /\ pf_pc' = [pf_pc EXCEPT ![c] = "done"]
  /\ pf_depth' = [pf_depth EXCEPT ![c] = 0]
  /\ lock_holder' = Released(c)
  /\ UNCHANGED notLip
  /\ UNCHANGED <<process, spawned, alive, pf_frame, pf_faults, pf_cancel,
                 writes, frames_made, faults, cancels>>

\* close(): process.wait() returns, self.process = None; then start() awaits
\* create_subprocess_exec
CloseDone(c) ==
  /\ pf_pc[c] = "close"
  /\ alive' = alive \ {process}
  /\ process' = 0
  /\ pending' = <<>>
  /\ pf_pc' = [pf_pc EXCEPT ![c] = "start"]
  /\ UNCHANGED notLip
  /\ UNCHANGED <<lock_holder, spawned, pf_depth, pf_frame, pf_result,
                 pf_faults, pf_cancel, writes, frames_made, faults, cancels>>

\* start() of the recovery: the new coprocess is stored in self.process;
\* then line 111 calls process_frame(frame_data) again, inside the handler
\* and so inside `async with self.lock`
RestartDone(c) ==
  /\ pf_pc[c] = "start"
  /\ spawned' = spawned + 1
  /\ process' = spawned + 1
  /\ alive' = alive \cup {spawned + 1}
  /\ pf_depth' = [pf_depth EXCEPT ![c] = pf_depth[c] + 1]
  /\ IF LockFree(c)
     THEN /\ lock_holder' = c
          /\ pending' = <<pf_frame[c]>>
          /\ writes' = Append(writes, <<spawned + 1, pf_frame[c]>>)
          /\ pf_pc' = [pf_pc EXCEPT ![c] = "drain"]
     ELSE /\ pending' = <<>>
          /\ pf_pc' = [pf_pc EXCEPT ![c] = "lock"]
          /\ UNCHANGED <<lock_holder, writes>>
  /\ UNCHANGED notLip
  /\ UNCHANGED <<pf_frame, pf_result, pf_faults, pf_cancel, frames_made,
                 faults, cancels>>

\* `if not lipsync_processor.process: await lipsync_processor.start()`, or
\* the start() of main(): up to the await of create_subprocess_exec
StartBody(c) ==
  /\ pf_pc' = [pf_pc EXCEPT ![c] = "spawn"]
  /\ UNCHANGED <<lock_holder, process, spawned, alive, pending, pf_depth,
                 pf_frame, pf_result, pf_faults, pf_cancel, writes,
                 frames_made, faults, cancels>>

\* start() called by a task that uses the detector directly
StartCall(c) ==
  /\ AtRest(c)
  /\ process = 0
  /\ StartBody(c)
  /\ UNCHANGED notLip

\* create_subprocess_exec returns to that start(): self.process is set
StartDone(c) ==
  /\ pf_pc[c] = "spawn"
  /\ ~pf_cancel[c]
  /\ spawned' = spawned + 1
  /\ process' = spawned + 1
  /\ alive' = alive \cup {spawned + 1}
  /\ pending' = <<>>
  /\ pf_pc' = [pf_pc EXCEPT ![c] = "done"]
  /\ pf_result' = [pf_result EXCEPT ![c] = NoResult]
  /\ UNCHANGED notLip
  /\ UNCHANGED <<lock_holder, pf_depth, pf_frame, pf_faults, pf_cancel,
                 writes, frames_made, faults, cancels>>

\* the caller's task is cancelled while it waits for the lock, for the
\* coprocess or for its own start() (cancellation during the close() and
\* start() of a recovery is not followed)
Cancel(c) ==
  /\ pf_pc[c] \in {"spawn", "lock", "drain", "read"}
  /\ ~pf_cancel[c]
  /\ cancels < MaxCancels
  /\ cancels' = cancels + 1
  /\ pf_cancel' = [pf_cancel EXCEPT ![c] = TRUE]
  /\ UNCHANGED notLip
  /\ UNCHANGED <<lock_holder, process, spawned, alive, pending, pf_pc,
                 pf_depth, pf_frame, pf_result, pf_faults, writes,
                 frames_made, faults>>

\* CancelledError at lock.acquire(): outside the try, so it leaves the
\* call, and any enclosing handler and `async with`, as CancelledError;
\* CancelledError at the create_subprocess_exec of a start() leaves start()
CancelAtLock(c) ==
  /\ pf_pc[c] \in {"lock", "spawn"}
  /\ pf_cancel[c]
  /\ pf_cancel' = [pf_cancel EXCEPT ![c] = FALSE]
  /\ pf_result' = [pf_result EXCEPT
                     ![c] = [kind |-> "CancelledError", frame |-> 0,
                             proc |-> 0]]
  /\ pf_pc' = [pf_pc EXCEPT ![c] = "done"]
  /\ pf_depth' = [pf_depth EXCEPT ![c] = 0]
  /\ lock_holder' = Released(c)
  /\ UNCHANGED notLip
  /\ UNCHANGED <<process, spawned, alive, pending, pf_frame, pf_faults,
                 writes, frames_made, faults, cancels>>

\* a handler that treats the cancellation as any other exception
CancelAtAwaitRecovers(c) ==
  /\ pf_pc[c] \in {"drain", "read"}
  /\ pf_cancel[c]
  /\ pf_cancel' = [pf_cancel EXCEPT ![c] = FALSE]
  /\ pf_pc' = [pf_pc EXCEPT ![c] = "close"]
  /\ UNCHANGED notLip
  /\ UNCHANGED <<lock_holder, process, spawned, alive, pending, pf_depth,
                 pf_frame, pf_result, pf_faults, writes, frames_made,
                 faults, cancels>>

\* CancelledError at drain() or readline(): lines 105-106 return None
CancelAtAwait(c) ==
  /\ pf_pc[c] \in {"drain", "read"}
  /\ pf_cancel[c]
  /\ pf_cancel' = [pf_cancel EXCEPT ![c] = FALSE]
  /\ pf_result' = [pf_result EXCEPT
                     ![c] = [kind |-> "None", frame |-> 0, proc |-> 0]]
  /\ pf_pc' = [pf_pc EXCEPT ![c] = "done"]
  /\ pf_depth' = [pf_depth EXCEPT ![c] = 0]
  /\ lock_holder' = Released(c)
  /\ UNCHANGED notLip
  /\ UNCHANGED <<process, spawned, alive, pending, pf_frame, pf_faults,
                 writes, frames_made, faults, cancels>>

LipNext ==
  \/ \E c \in Callers : StartCall(c)
  \/ \E c \in Callers : StartDone(c)
  \/ \E c \in Callers : ProcessFrameCall(c)
  \/ \E c \in Callers : Acquire(c)
  \/ \E c \in Callers : DrainDone(c)
  \/ \E c \in Callers : DrainFail(c)
  \/ \E c \in Callers : ReadTimeout(c)
  \/ \E c \in Callers : ReadLine(c)
  \/ \E c \in Callers : CloseDone(c)
  \/ \E c \in Callers : RestartDone(c)
  \/ \E c \in Callers : Cancel(c)
  \/ \E c \in Callers : CancelAtLock(c)
  \/ \E c \in Callers : CancelAtAwait(c)

(***************************************************************************)
(* Streaming chunk sequence: experimental_streaming_output_generator,      *)
(* lines 70-123, with send_chunks and the Decode Worker around it          *)
(***************************************************************************)
\* the task that consumes the chunk sequence; inside detect_lipsync it is
\* a caller of the shared detector
Gen == "u1"

NoChunk == [id |-> 0, is_last |-> FALSE, frames |-> 0]

\* the sentinel send_chunks puts after the last fragment (None)
Sentinel == 0

StInit ==
  /\ st_pc = "new"
  /\ st_span = FALSE
  /\ st_lipsync = FALSE
  /\ st_chunk = NoChunk
  /\ st_frames_left = 0
  /\ st_cancel = FALSE
  /\ st_cancelled_at = "none"
  /\ st_exc = "none"
  /\ span_ended = FALSE
  /\ worker = "none"
  /\ pump = "none"
  /\ frags_left = Fragments
  /\ in_q = <<>>
  /\ out_q = <<>>
  /\ yielded = <<>>
  /\ chunks_made = 0
  /\ utterances = 0

\* the first __anext__: the worker is built and started, the send_chunks
\* task is created, and output_queue.get() is awaited
GenStart(span, lip) ==
  /\ st_pc = "new"
  /\ st_span' = span
  /\ st_lipsync' = lip
  /\ worker' = "running"
  /\ pump' = "reading"
  /\ st_pc' = "get"
  /\ utterances' = utterances + 1
  /\ UNCHANGED <<st_chunk, st_frames_left, st_cancel, st_cancelled_at, st_exc,
                 span_ended, frags_left, in_q, out_q, yielded, chunks_made>>
  /\ UNCHANGED lipVars
  /\ UNCHANGED notSt

\* send_chunks: one fragment of the response goes to the worker's input
PumpSend ==
  /\ pump = "reading"
  /\ frags_left > 0
  /\ in_q' = Append(in_q, frags_left)
  /\ frags_left' = frags_left - 1
  /\ UNCHANGED <<st_pc, st_span, st_lipsync, st_chunk, st_frames_left,
                 st_cancel, st_cancelled_at, st_exc, span_ended, worker, pump,
                 out_q, yielded, chunks_made>>
  /\ UNCHANGED lipVars
  /\ UNCHANGED utterances
  /\ UNCHANGED notSt

\* a send_chunks that may put the sentinel while the response still holds
\* fragments
PumpSentinelEarly ==
  /\ pump = "reading"
  /\ in_q' = Append(in_q, Sentinel)
  /\ pump' = "done"
  /\ UNCHANGED <<st_pc, st_span, st_lipsync, st_chunk, st_frames_left,
                 st_cancel, st_cancelled_at, st_exc, span_ended, worker,
                 frags_left, out_q, yielded, chunks_made>>
  /\ UNCHANGED lipVars
  /\ UNCHANGED utterances
  /\ UNCHANGED notSt

\* send_chunks: the response has ended, the sentinel is put
PumpSentinel ==
  /\ pump = "reading"
  /\ frags_left = 0
  /\ in_q' = Append(in_q, Sentinel)
  /\ pump' = "done"
  /\ UNCHANGED <<st_pc, st_span, st_lipsync, st_chunk, st_frames_left,
                 st_cancel, st_cancelled_at, st_exc, span_ended, worker,
                 frags_left, out_q, yielded, chunks_made>>
  /\ UNCHANGED lipVars
  /\ UNCHANGED utterances
  /\ UNCHANGED notSt

\* send_chunks: reading the response raises; the task ends, no sentinel
PumpFail ==
  /\ pump = "reading"
  /\ pump' = "failed"
  /\ UNCHANGED <<st_pc, st_span, st_lipsync, st_chunk, st_frames_left,
                 st_cancel, st_cancelled_at, st_exc, span_ended, worker,
                 frags_left, in_q, out_q, yielded, chunks_made>>
  /\ UNCHANGED lipVars
  /\ UNCHANGED utterances
  /\ UNCHANGED notSt

\* Decode Worker: a fragment is decoded into one chunk, not the last
WorkerDecode ==
  /\ worker = "running"
  /\ in_q # <<>>
  /\ Head(in_q) # Sentinel
  /\ in_q' = Tail(in_q)
  /\ chunks_made' = chunks_made + 1
  /\ out_q' = Append(out_q, [id |-> chunks_made + 1, is_last |-> FALSE,
                             frames |-> FramesPerChunk])
  /\ UNCHANGED <<st_pc, st_span, st_lipsync, st_chunk, st_frames_left,
                 st_cancel, st_cancelled_at, st_exc, span_ended, worker, pump,
                 frags_left, yielded>>
  /\ UNCHANGED lipVars
  /\ UNCHANGED utterances
  /\ UNCHANGED notSt

\* Decode Worker: on the sentinel the final, possibly short, chunk is put
\* with is_last = true
WorkerSentinel ==
  /\ worker = "running"
  /\ in_q # <<>>
  /\ Head(in_q) = Sentinel
  /\ in_q' = Tail(in_q)
  /\ chunks_made' = chunks_made + 1
  /\ out_q' = Append(out_q, [id |-> chunks_made + 1, is_last |-> TRUE,
                             frames |-> 0])
  /\ UNCHANGED <<st_pc, st_span, st_lipsync, st_chunk, st_frames_left,
                 st_cancel, st_cancelled_at, st_exc, span_ended, worker, pump,
                 frags_left, yielded>>
  /\ UNCHANGED lipVars
  /\ UNCHANGED utterances
  /\ UNCHANGED notSt

\* detect_lipsync(wav_chunk) up to its first suspension: the first full
\* frame goes to process_frame; a chunk with no full frame is yielded
Detect(ch) ==
  IF st_lipsync /\ ch.frames > 0
  THEN /\ ProcessFrameBody(Gen)
       /\ st_pc' = "detect"
       /\ st_frames_left' = ch.frames
       /\ UNCHANGED yielded
  ELSE /\ st_pc' = "yielded"
       /\ yielded' = Append(yielded, ch)
       /\ st_frames_left' = 0
       /\ UNCHANGED lipVars

\* a generator that takes the newest chunk of the output queue
GenGetNewest ==
  /\ st_pc = "get"
  /\ ~st_cancel
  /\ out_q # <<>>
  /\ out_q' = SubSeq(out_q, 1, Len(out_q) - 1)
  /\ st_chunk' = out_q[Len(out_q)]
  /\ IF st_lipsync /\ process = 0
     THEN /\ StartBody(Gen)
          /\ st_pc' = "spawn"
          /\ UNCHANGED <<st_frames_left, yielded>>
     ELSE Detect(out_q[Len(out_q)])
  /\ UNCHANGED <<st_span, st_lipsync, st_cancel, st_cancelled_at, st_exc,
                 span_ended, worker, pump, frags_left, in_q, chunks_made>>
  /\ UNCHANGED utterances
  /\ UNCHANGED notSt

\* output_queue.get() returns a chunk: the lazy start of the detector
\* (lines 106-107), or detect_lipsync, or the yield
GenGet ==
  /\ st_pc = "get"
  /\ ~st_cancel
  /\ out_q # <<>>
  /\ out_q' = Tail(out_q)
  /\ st_chunk' = Head(out_q)
  /\ IF st_lipsync /\ process = 0
     THEN /\ StartBody(Gen)
          /\ st_pc' = "spawn"
          /\ UNCHANGED <<st_frames_left, yielded>>
     ELSE Detect(Head(out_q))
  /\ UNCHANGED <<st_span, st_lipsync, st_cancel, st_cancelled_at, st_exc,
                 span_ended, worker, pump, frags_left, in_q, chunks_made>>
  /\ UNCHANGED utterances
  /\ UNCHANGED notSt

\* lipsync_processor.start() has returned: detect_lipsync is called
GenSpawned ==
  /\ st_pc = "spawn"
  /\ pf_pc[Gen] = "done"
  /\ pf_result[Gen].kind = "none_yet"
  /\ Detect(st_chunk)
  /\ UNCHANGED <<st_span, st_lipsync, st_chunk, st_cancel, st_cancelled_at,
                 st_exc, span_ended, worker, pump, frags_left, in_q, out_q,
                 chunks_made>>
  /\ UNCHANGED utterances
  /\ UNCHANGED notSt

\* process_frame returned a line: line 129 decodes it; the next full frame
\* is processed, or the chunk is yielded
GenFrameLine ==
  /\ st_pc = "detect"
  /\ pf_pc[Gen] = "done"
  /\ pf_result[Gen].kind = "line"
  /\ IF st_frames_left > 1
     THEN /\ ProcessFrameBody(Gen)
          /\ st_frames_left' = st_frames_left - 1
          /\ UNCHANGED <<st_pc, yielded>>
     ELSE /\ st_pc' = "yielded"
          /\ yielded' = Append(yielded, st_chunk)
          /\ st_frames_left' = 0
          /\ UNCHANGED lipVars
  /\ UNCHANGED <<st_span, st_lipsync, st_chunk, st_cancel, st_cancelled_at,
                 st_exc, span_ended, worker, pump, frags_left, in_q, out_q,
                 chunks_made>>
  /\ UNCHANGED utterances
  /\ UNCHANGED notSt

\* process_frame returned None (it was cancelled at drain() or readline()):
\* None.decode() of line 129 raises AttributeError, which the generator
\* does not catch; the finally clause terminates the worker
GenFrameNone ==
  /\ st_pc = "detect"
  /\ pf_pc[Gen] = "done"
  /\ pf_result[Gen].kind = "None"
  /\ st_pc' = "raised"
  /\ st_exc' = "AttributeError"
  /\ st_cancelled_at' = "await"
  /\ worker' = "terminated"
  /\ UNCHANGED <<st_span, st_lipsync, st_chunk, st_frames_left, st_cancel,
                 span_ended, pump, frags_left, in_q, out_q, yielded,
                 chunks_made>>
  /\ UNCHANGED lipVars
  /\ UNCHANGED utterances
  /\ UNCHANGED notSt

\* CancelledError came out of process_frame (cancelled at the lock) or of
\* start(): lines 120-121 swallow it, the finally clause terminates the
\* worker and the generator returns
GenFrameCancelled ==
  /\ st_pc \in {"spawn", "detect"}
  /\ pf_pc[Gen] = "done"
  /\ pf_result[Gen].kind = "CancelledError"
  /\ st_pc' = "ended"
  /\ st_cancelled_at' = IF st_pc = "spawn" THEN "start" ELSE "lock"
  /\ worker' = "terminated"
  /\ UNCHANGED <<st_span, st_lipsync, st_chunk, st_frames_left, st_cancel,
                 st_exc, span_ended, pump, frags_left, in_q, out_q, yielded,
                 chunks_made>>
  /\ UNCHANGED lipVars
  /\ UNCHANGED utterances
  /\ UNCHANGED notSt

\* the consuming task is cancelled while the generator waits on the queue
GenCancel ==
  /\ st_pc = "get"
  /\ ~st_cancel
  /\ cancels < MaxCancels
  /\ cancels' = cancels + 1
  /\ st_cancel' = TRUE
  /\ UNCHANGED <<st_pc, st_span, st_lipsync, st_chunk, st_frames_left,
                 st_cancelled_at, st_exc, span_ended, worker, pump, frags_left,
                 in_q, out_q, yielded, chunks_made>>
  /\ UNCHANGED <<lock_holder, process, spawned, alive, pending, pf_pc,
                 pf_depth, pf_frame, pf_result, pf_faults, pf_cancel, writes,
                 frames_made, faults>>
  /\ UNCHANGED utterances
  /\ UNCHANGED notSt

\* a generator whose clean-up also closes the detector's coprocess
GenCancelAtGetCloses ==
  /\ st_pc = "get"
  /\ st_cancel
  /\ st_cancel' = FALSE
  /\ st_pc' = "ended"
  /\ st_cancelled_at' = "get"
  /\ worker' = "terminated"
  /\ process' = 0
  /\ alive' = alive \ {process}
  /\ UNCHANGED <<st_span, st_lipsync, st_chunk, st_frames_left, st_exc,
                 span_ended, pump, frags_left, in_q, out_q, yielded,
                 chunks_made>>
  /\ UNCHANGED <<lock_holder, spawned, pending, pf_pc, pf_depth, pf_frame,
                 pf_result, pf_faults, pf_cancel, writes, frames_made, faults,
                 cancels>>
  /\ UNCHANGED utterances
  /\ UNCHANGED notSt

\* CancelledError at output_queue.get(): lines 120-121 swallow it, the
\* finally clause terminates the worker and the generator returns
GenCancelAtGet ==
  /\ st_pc = "get"
  /\ st_cancel
  /\ st_cancel' = FALSE
  /\ st_pc' = "ended"
  /\ st_cancelled_at' = "get"
  /\ worker' = "terminated"
  /\ UNCHANGED <<st_span, st_lipsync, st_chunk, st_frames_left, st_exc,
                 span_ended, pump, frags_left, in_q, out_q, yielded,
                 chunks_made>>
  /\ UNCHANGED lipVars
  /\ UNCHANGED utterances
  /\ UNCHANGED notSt

\* the consumer asks for the next chunk: after the last chunk, with a span,
\* the span is ended and the loop left (finally: terminate); otherwise the
\* loop goes round to output_queue.get()
GenNext ==
  /\ st_pc = "yielded"
  /\ IF st_chunk.is_last /\ st_span
     THEN /\ span_ended' = TRUE
          /\ st_pc' = "ended"
          /\ worker' = "terminated"
     ELSE /\ st_pc' = "get"
          /\ UNCHANGED <<span_ended, worker>>
  /\ UNCHANGED <<st_span, st_lipsync, st_chunk, st_frames_left, st_cancel,
                 st_cancelled_at, st_exc, pump, frags_left, in_q, out_q,
                 yielded, chunks_made>>
  /\ UNCHANGED lipVars
  /\ UNCHANGED utterances
  /\ UNCHANGED notSt

\* create_speech builds the chunk sequence of the next utterance (lines
\* 192-202): a new generator with its own queues, worker and send_chunks
\* task; lipsync_processor is the module's one instance (line 30). The
\* send_chunks task of the sequence before, if it still runs, feeds the old
\* worker's queue and is not followed any further
GenAgain ==
  /\ st_pc \in {"ended", "raised"}
  /\ utterances < MaxUtterances
  /\ st_pc' = "new"
  /\ st_span' = FALSE
  /\ st_lipsync' = FALSE
  /\ st_chunk' = NoChunk
  /\ st_frames_left' = 0
  /\ st_cancel' = FALSE
  /\ st_cancelled_at' = "none"
  /\ st_exc' = "none"
  /\ span_ended' = FALSE
  /\ worker' = "none"
  /\ pump' = "none"
  /\ frags_left' = Fragments
  /\ in_q' = <<>>
  /\ out_q' = <<>>
  /\ yielded' = <<>>
  /\ chunks_made' = 0
  /\ UNCHANGED utterances
  /\ UNCHANGED lipVars
  /\ UNCHANGED notSt

\* the chunk sequences of successive utterances of one conversation: one
\* task at a time consumes a sequence and uses the detector
UtNext ==
  \/ \E span \in BOOLEAN, lip \in BOOLEAN : GenStart(span, lip)
  \/ PumpSend
  \/ PumpSentinel
  \/ PumpFail
  \/ WorkerDecode
  \/ WorkerSentinel
  \/ GenGet
  \/ GenSpawned
  \/ GenFrameLine
  \/ GenFrameNone
  \/ GenFrameCancelled
  \/ GenCancel
  \/ GenCancelAtGet
  \/ GenNext
  \/ GenAgain
  \/ StartDone(Gen)
  \/ DrainDone(Gen)
  \/ DrainFail(Gen)
  \/ ReadTimeout(Gen)
  \/ ReadLine(Gen)
  \/ CloseDone(Gen)
  \/ RestartDone(Gen)
  \/ Cancel(Gen)
  \/ CancelAtLock(Gen)
  \/ CancelAtAwait(Gen)

\* the chunk sequence of one utterance, with the shared detector and the
\* other task that uses it
StNext ==
  \/ \E span \in BOOLEAN, lip \in BOOLEAN : GenStart(span, lip)
  \/ PumpSend
  \/ PumpSentinel
  \/ PumpFail
  \/ WorkerDecode
  \/ WorkerSentinel
  \/ GenGet
  \/ GenSpawned
  \/ GenFrameLine
  \/ GenFrameNone
  \/ GenFrameCancelled
  \/ GenCancel
  \/ GenCancelAtGet
  \/ GenNext
  \/ \E c \in Callers \ {Gen} : StartCall(c)
  \/ \E c \in Callers \ {Gen} : ProcessFrameCall(c)
  \/ \E c \in Callers : StartDone(c)
  \/ \E c \in Callers : Acquire(c)
  \/ \E c \in Callers : DrainDone(c)
  \/ \E c \in Callers : DrainFail(c)
  \/ \E c \in Callers : ReadTimeout(c)
  \/ \E c \in Callers : ReadLine(c)
  \/ \E c \in Callers : CloseDone(c)
  \/ \E c \in Callers : RestartDone(c)
  \/ \E c \in Callers : Cancel(c)
  \/ \E c \in Callers : CancelAtLock(c)
  \/ \E c \in Callers : CancelAtAwait(c)

(***************************************************************************)
(* Viseme events: detect_lipsync in event mode (ovrlipsync.py 113-140) and *)
(* their accumulation by the generator (eleven_labs_synthesizer.py         *)
(* 100-110). Times are whole ticks of 1/48000 s, so that a byte of either  *)
(* encoding and a hundredth of a second are whole numbers of ticks.        *)
(***************************************************************************)
\* lipsync_processor = OVRLipsyncProcessor(24000)
SampleRate == 24000

\* buffer_ms: int = 10
BufferMs == 10

\* self.buffer_size = 2 * int(sample_rate * buffer_ms / 1000)
BufferSize == 2 * ((SampleRate * BufferMs) \div 1000)

\* one second, in ticks: the bytes of a second of 16-bit audio at SampleRate
TicksPerSecond == 2 * SampleRate

\* self.buffer_ms / 1000, in ticks
BufferTicks == (TicksPerSecond * BufferMs) \div 1000

\* 0.01 s, the grid of round(x, 2), in ticks
Hundredth == TicksPerSecond \div 100

\* the WAV header detect_lipsync skips
WavHeaderBytes == 44

\* round(x, 2): the nearest hundredth, a tie going to the even one
Round2(x) ==
  LET q == x \div Hundredth
      r == x % Hundredth
  IN  IF 2 * r < Hundredth THEN q * Hundredth
      ELSE IF 2 * r > Hundredth THEN (q + 1) * Hundredth
      ELSE IF q % 2 = 0 THEN q * Hundredth
      ELSE (q + 1) * Hundredth

\* the table of viseme ids
ovr_viseme_ids ==
  {"ovr_sil", "ovr_PP", "ovr_FF", "ovr_TH", "ovr_DD",
   "ovr_kk", "ovr_CH", "ovr_SS", "ovr_nn", "ovr_RR",
   "ovr_aa", "ovr_E", "ovr_I", "ovr_O", "ovr_U"}

\* stdout_line.strip().decode(): the label tokens followed here; the empty
\* line, a label of the table, and the coprocess's own name of a viseme
\* that the table calls ovr_I
Labels == {"", "aa", "ih"}

\* len(wav_chunk) of the chunks followed here: empty, half a frame, one
\* frame and a rest, two frames, two frames and a header's length, three
\* frames
ChunkLens == {0, 240, 500, 960, 1004, 1440}

\* get_chunk_size_per_second: LINEAR16 gives 2 * sampling_rate, MULAW gives
\* sampling_rate; as ticks per byte
TicksPerByte(encoding) == IF encoding = "LINEAR16" THEN 1 ELSE 2

\* last_viseme = None
NoViseme == "None"

EvInit ==
  /\ ev_pc = "new"
  /\ ev_tpb = 0
  /\ ev_chunks = 0
  /\ ev_offset = 0
  /\ ev_acc = <<>>
  /\ dl_len = 0
  /\ dl_byte_offset = 0
  /\ dl_offset = 0
  /\ dl_last = NoViseme
  /\ dl_events = <<>>
  /\ dl_start = 0
  /\ dl_entry = 0
  /\ dl_frames = <<>>

\* __init__ line 63 and generator line 100: bytes_per_second is fixed by the
\* encoding, audio_offset = 0.0, lipsync_events = []
EvStart(encoding) ==
  /\ ev_pc = "new"
  /\ ev_tpb' = TicksPerByte(encoding)
  /\ ev_pc' = "idle"
  /\ UNCHANGED <<ev_chunks, ev_offset, ev_acc, dl_len, dl_byte_offset,
                 dl_offset, dl_last, dl_events, dl_start, dl_entry,
                 dl_frames>>
  /\ UNCHANGED notEv

\* line 108: detect_lipsync(wav_chunk, audio_offset) is called with the next
\* chunk; lines 117-123 set its locals (riff: the chunk begins with b"RIFF")
DetectLipsyncCall(len, riff) ==
  /\ ev_pc = "idle"
  /\ ev_chunks < MaxChunks
  /\ riff => len >= 4
  /\ dl_len' = len
  /\ dl_byte_offset' = IF riff THEN WavHeaderBytes ELSE 0
  /\ dl_offset' = ev_offset
  /\ dl_last' = NoViseme
  /\ dl_events' = <<>>
  /\ dl_start' = (IF riff THEN WavHeaderBytes ELSE 0)
  /\ dl_entry' = ev_offset
  /\ dl_frames' = <<>>
  /\ ev_pc' = "detect"
  /\ UNCHANGED <<ev_tpb, ev_chunks, ev_offset, ev_acc>>
  /\ UNCHANGED notEv

\* a loop that hands every chunk it cuts to process_frame, the short last
\* one too
DetectFrameAnyLength(viseme) ==
  /\ ev_pc = "detect"
  /\ dl_byte_offset < dl_len
  /\ dl_byte_offset' = dl_byte_offset + BufferSize
  /\ dl_events' =
       IF viseme # "" /\ viseme # dl_last
       THEN Append(dl_events, [audio_offset |-> dl_offset,
                               viseme_id |-> "ovr_" \o viseme])
       ELSE dl_events
  /\ dl_last' = viseme
  /\ dl_offset' = Round2(dl_offset + BufferTicks)
  /\ dl_frames' =
       Append(dl_frames,
              [first |-> dl_byte_offset,
               len |-> IF dl_len - dl_byte_offset >= BufferSize
                       THEN BufferSize ELSE dl_len - dl_byte_offset])
  /\ UNCHANGED <<ev_pc, ev_tpb, ev_chunks, ev_offset, ev_acc, dl_len,
                 dl_start, dl_entry>>
  /\ UNCHANGED notEv

\* lines 125-136, one round of the loop over a full frame: process_frame
\* answers the label viseme
DetectFrame(viseme) ==
  /\ ev_pc = "detect"
  /\ dl_byte_offset < dl_len
  /\ dl_len - dl_byte_offset >= BufferSize
  /\ dl_byte_offset' = dl_byte_offset + BufferSize
  /\ dl_events' =
       IF viseme # "" /\ viseme # dl_last
       THEN Append(dl_events, [audio_offset |-> dl_offset,
                               viseme_id |-> "ovr_" \o viseme])
       ELSE dl_events
  /\ dl_last' = viseme
  /\ dl_offset' = Round2(dl_offset + BufferTicks)
  /\ dl_frames' = Append(dl_frames, [first |-> dl_byte_offset,
                                     len |-> BufferSize])
  /\ UNCHANGED <<ev_pc, ev_tpb, ev_chunks, ev_offset, ev_acc, dl_len,
                 dl_start, dl_entry>>
  /\ UNCHANGED notEv

\* a generator that does not advance audio_offset
DetectReturnNoAdvance ==
  /\ ev_pc = "detect"
  /\ ~(dl_byte_offset < dl_len /\ dl_len - dl_byte_offset >= BufferSize)
  /\ ev_acc' = ev_acc \o dl_events
  /\ ev_chunks' = ev_chunks + 1
  /\ ev_pc' = "idle"
  /\ UNCHANGED <<ev_tpb, ev_offset, dl_len, dl_byte_offset, dl_offset,
                 dl_last, dl_events, dl_start, dl_entry, dl_frames>>
  /\ UNCHANGED notEv

\* the loop ends, after a last round over a short frame if there is one
\* (lines 125-128), and detect_lipsync returns; lines 109-110 extend
\* lipsync_events and advance audio_offset by len(wav_chunk) /
\* self.bytes_per_second
DetectReturn ==
  /\ ev_pc = "detect"
  /\ ~(dl_byte_offset < dl_len /\ dl_len - dl_byte_offset >= BufferSize)
  /\ ev_acc' = ev_acc \o dl_events
  /\ ev_offset' = ev_offset + dl_len * ev_tpb
  /\ ev_chunks' = ev_chunks + 1
  /\ ev_pc' = "idle"
  /\ UNCHANGED <<ev_tpb, dl_len, dl_byte_offset, dl_offset, dl_last,
                 dl_events, dl_start, dl_entry, dl_frames>>
  /\ UNCHANGED notEv

EvNext ==
  \/ \E encoding \in {"LINEAR16", "MULAW"} : EvStart(encoding)
  \/ \E len \in ChunkLens, riff \in BOOLEAN : DetectLipsyncCall(len, riff)
  \/ \E viseme \in Labels : DetectFrame(viseme)
  \/ DetectReturn

(***************************************************************************)
(* Functions without state: one call, its arguments drawn from small sets  *)
(***************************************************************************)
NoValue == <<>>

FnInit ==
  /\ fn_pc = "idle"
  /\ fn_args = NoValue
  /\ fn_ret = NoValue

\* every sequence over S of length at most n
SeqsUpTo(S, n) == UNION {[1..k -> S] : k \in 0..n}

\* get_lipsync_events (eleven_labs_synthesizer.py 32-39): the events whose
\* audio_offset is truthy (not zero) and lies in [from_s, to_s), rebased
RECURSIVE get_lipsync_events(_, _, _)
get_lipsync_events(from_s, to_s, lipsync_events) ==
  IF lipsync_events = <<>> THEN <<>>
  ELSE LET event == Head(lipsync_events)
           rest == get_lipsync_events(from_s, to_s, Tail(lipsync_events))
       IN  IF /\ event.audio_offset # 0
              /\ from_s <= event.audio_offset
              /\ event.audio_offset < to_s
           THEN <<[audio_offset |-> event.audio_offset - from_s,
                   viseme_id |-> event.viseme_id]>> \o rest
           ELSE rest

\* the times of the window queries followed here, in one common unit
WindowTimes == 0..MaxTime

\* the event lists and windows get_lipsync_events is called with
WindowArgs ==
  {[from_s |-> f, to_s |-> t, lipsync_events |-> es] :
     f \in WindowTimes, t \in WindowTimes,
     es \in SeqsUpTo([audio_offset : WindowTimes,
                      viseme_id : {"ovr_aa", "ovr_PP"}], MaxEvents)}

WindowInit ==
  /\ fn_pc = "ready"
  /\ fn_args \in {a \in WindowArgs : a.from_s < a.to_s}
  /\ fn_ret = NoValue

\* the `lambda from_s, to_s: get_lipsync_events(from_s, to_s,
\* lipsync_events)` of line 201 is called
GetLipsyncEventsCall ==
  /\ fn_pc = "ready"
  /\ fn_ret' = get_lipsync_events(fn_args.from_s, fn_args.to_s,
                                  fn_args.lipsync_events)
  /\ fn_pc' = "returned"
  /\ UNCHANGED fn_args
  /\ UNCHANGED notFn

WindowNext == GetLipsyncEventsCall

(***************************************************************************)
(* utils/__init__.py: trim_audio (lines 83-117). Seconds are given in      *)
(* quarters, and the audio buffer is the sequence of the stream positions  *)
(* (0, 1, 2, ...) of the bytes it holds: the last len(audio_buffer) of the *)
(* total_bytes recorded since the stream started.                          *)
(***************************************************************************)
\* bytes_per_sample = 2
BytesPerSample == 2

\* the parts of a second the times of a call are given in
Quarter == 4

Max2(a, b) == IF a >= b THEN a ELSE b

\* int(max(0, s) * bytes_per_sample * sampling_rate), s being q quarters
SecondsToBytes(q, sampling_rate) ==
  (Max2(0, q) * BytesPerSample * sampling_rate) \div Quarter

\* the index a slice bound stands for in a sequence of n items: a negative
\* bound counts from the end, and every bound is clamped to 0..n
SliceIndex(i, n) ==
  IF i < 0 THEN Max2(0, i + n) ELSE IF i > n THEN n ELSE i

\* s[a:b] of Python, on a sequence indexed from 1
Slice(s, a, b) ==
  LET lo == SliceIndex(a, Len(s))
      hi == SliceIndex(b, Len(s))
  IN  IF lo < hi THEN SubSeq(s, lo + 1, hi) ELSE <<>>

\* the buffer that holds the last n bytes of a stream of total bytes
StreamTail(total, n) == [i \in 1..n |-> total - n + i - 1]

\* trim_audio: the audio returned, with the start index and the duration
\* it worked with
trim_audio(sampling_rate, audio_buffer, total_bytes, offset_q, duration_q) ==
  LET offset_bytes0 == SecondsToBytes(offset_q, sampling_rate)
      duration_bytes0 == SecondsToBytes(duration_q, sampling_rate)
      duration_bytes ==
        IF offset_bytes0 + duration_bytes0 > total_bytes
        THEN total_bytes - offset_bytes0
        ELSE duration_bytes0
      offset_bytes ==
        Max2(0, offset_bytes0 - total_bytes + Len(audio_buffer))
  IN  IF \/ duration_bytes = 0
         \/ Len(audio_buffer) <= BytesPerSample * sampling_rate
      THEN [audio |-> audio_buffer, sliced |-> FALSE,
            start |-> offset_bytes, duration |-> duration_bytes]
      ELSE [audio |-> Slice(audio_buffer, offset_bytes,
                            offset_bytes + duration_bytes),
            sliced |-> TRUE,
            start |-> offset_bytes, duration |-> duration_bytes]

\* the sampling rates followed here, in samples per second
TrimRates == {1, 2}

\* the calls of trim_audio followed here
TrimArgs ==
  {[fn |-> "trim_audio", sampling_rate |-> r, buffer_len |-> n,
    total_bytes |-> n + k, offset_q |-> o, duration_q |-> u] :
     r \in TrimRates, n \in 0..MaxBuffer, k \in 0..MaxDiscarded,
     o \in 0..MaxQuarters, u \in 0..MaxQuarters}

TrimAudioCall ==
  /\ fn_pc = "ready"
  /\ fn_args.fn = "trim_audio"
  /\ fn_ret' = trim_audio(fn_args.sampling_rate,
                          StreamTail(fn_args.total_bytes, fn_args.buffer_len),
                          fn_args.total_bytes, fn_args.offset_q,
                          fn_args.duration_q)
  /\ fn_pc' = "returned"
  /\ UNCHANGED fn_args
  /\ UNCHANGED notFn

\* the values an encoding argument can have: the two members of
\* AudioEncoding the functions know, and any other value
Encodings == {"LINEAR16", "MULAW", "OTHER"}

\* audioop.ratecv(raw_wav, 2, 1, input_sample_rate, output_sample_rate,
\* None) on n bytes of 16-bit mono audio: the length of the result
RateCv(n, input_sample_rate, output_sample_rate) ==
  2 * (((n \div 2) * output_sample_rate) \div input_sample_rate)

\* convert_linear_audio (lines 22-38) on raw_wav of n bytes: the length of
\* the bytes returned, or None when neither branch of lines 35-38 returns
convert_linear_audio(n, input_sample_rate, output_sample_rate,
                     output_encoding, output_sample_width) ==
  LET resampled == IF input_sample_rate # output_sample_rate
                   THEN RateCv(n, input_sample_rate, output_sample_rate)
                   ELSE n
  IN  IF output_encoding = "LINEAR16"
      THEN [kind |-> "bytes", len |-> resampled]
      ELSE IF output_encoding = "MULAW"
      THEN [kind |-> "bytes", len |-> resampled \div output_sample_width]
      ELSE [kind |-> "None", len |-> 0]

\* the calls of convert_linear_audio followed here
ConvertArgs ==
  {[fn |-> "convert_linear_audio", raw_len |-> 2 * k,
    input_sample_rate |-> i, output_sample_rate |-> o,
    output_encoding |-> e] :
     k \in 0..MaxSamples, i \in {8000, 24000}, o \in {8000, 24000},
     e \in Encodings}

ConvertLinearAudioCall ==
  /\ fn_pc = "ready"
  /\ fn_args.fn = "convert_linear_audio"
  /\ fn_ret' = convert_linear_audio(fn_args.raw_len,
                                    fn_args.input_sample_rate,
                                    fn_args.output_sample_rate,
                                    fn_args.output_encoding, BytesPerSample)
  /\ fn_pc' = "returned"
  /\ UNCHANGED fn_args
  /\ UNCHANGED notFn

\* byte strings are followed as sequences of words of four bytes: the two
\* tags of a WAV header and any other four bytes
Words == {"RIFF", "WAVE", "...."}

\* has_wav_header (lines 130-136)
has_wav_header(byte_string) ==
  IF 4 * Len(byte_string) < 12 THEN FALSE
  ELSE byte_string[1] = "RIFF" /\ byte_string[3] = "WAVE"

\* detect_lipsync, ovrlipsync.py lines 117-123: the byte_offset framing
\* starts at
DetectByteOffset(audio_data) ==
  IF Len(audio_data) >= 1 /\ audio_data[1] = "RIFF"
  THEN WavHeaderBytes
  ELSE 0

\* the inputs of the header test followed here
HeaderArgs ==
  {[fn |-> "detect_lipsync", audio_data |-> ws] :
     ws \in SeqsUpTo(Words, MaxWords)}

\* detect_lipsync is called with audio_data and sets byte_offset
DetectHeaderCall ==
  /\ fn_pc = "ready"
  /\ fn_args.fn = "detect_lipsync"
  /\ fn_ret' = [byte_offset |-> DetectByteOffset(fn_args.audio_data)]
  /\ fn_pc' = "returned"
  /\ UNCHANGED fn_args
  /\ UNCHANGED notFn

UtilsInit ==
  /\ fn_pc = "ready"
  /\ fn_args \in TrimArgs \cup ConvertArgs \cup HeaderArgs
  /\ fn_ret = NoValue

UtilsNext ==
  \/ TrimAudioCall
  \/ ConvertLinearAudioCall
  \/ DetectHeaderCall

(***************************************************************************)
(* Specifications: one per component, the others at rest                   *)
(***************************************************************************)
InitAll == OutInit /\ CsInit /\ LipInit /\ StInit /\ EvInit /\ FnInit

SpecOutput == InitAll /\ [][OutNext]_vars

\* the steps the event loop takes for the task of process() and for a
\* terminate() that awaits it, and the completion of a write by a transport
\* that works; the calls of the channel's users, the loss of the peer and a
\* failing write are left to the environment
OutputStep ==
  \/ ProcessRun
  \/ ProcessWake
  \/ SendOk
  \/ ProcessCancelled
  \/ TerminateReturn

\* the output channel under fair scheduling
SpecOutputFair == InitAll /\ [][OutNext]_vars /\ WF_vars(OutputStep)

SpecSpeech == InitAll /\ [][CsNext]_vars

SpecLipsync == InitAll /\ [][LipNext]_vars

SpecStream == InitAll /\ [][StNext]_vars

SpecUtterances == InitAll /\ [][UtNext]_vars

\* the steps the event loop, the worker's thread and a healthy coprocess
\* take by themselves: every step of UtNext but the faults (PumpFail,
\* DrainFail, ReadTimeout), the cancellations (GenCancel, Cancel) and the
\* consumer's start of a sequence (GenStart, GenAgain)
ProgramStep ==
  \/ PumpSend
  \/ PumpSentinel
  \/ WorkerDecode
  \/ WorkerSentinel
  \/ GenGet
  \/ GenSpawned
  \/ GenFrameLine
  \/ GenFrameNone
  \/ GenFrameCancelled
  \/ GenCancelAtGet
  \/ GenNext
  \/ StartDone(Gen)
  \/ DrainDone(Gen)
  \/ ReadLine(Gen)
  \/ CloseDone(Gen)
  \/ RestartDone(Gen)
  \/ CancelAtLock(Gen)
  \/ CancelAtAwait(Gen)

\* successive utterances under fair scheduling: a step the program can
\* take is not put off forever
SpecUtterancesFair == InitAll /\ [][UtNext]_vars /\ WF_vars(ProgramStep)

SpecVisemes == InitAll /\ [][EvNext]_vars

\* the components at rest, the arguments of the window query chosen
InitWindow == OutInit /\ CsInit /\ LipInit /\ StInit /\ EvInit /\ WindowInit

SpecWindow == InitWindow /\ [][WindowNext]_vars

\* the components at rest, a call of a function of utils chosen
InitUtils == OutInit /\ CsInit /\ LipInit /\ StInit /\ EvInit /\ UtilsInit

SpecUtils == InitUtils /\ [][UtilsNext]_vars

(***************************************************************************)
(* Claims about the output channel                                         *)
(***************************************************************************)
\* s is an order-preserving subsequence of t
RECURSIVE IsSubseq(_, _)
IsSubseq(s, t) ==
  IF s = <<>> THEN TRUE
  ELSE IF t = <<>> THEN FALSE
  ELSE IF Head(s) = Head(t) THEN IsSubseq(Tail(s), Tail(t))
  ELSE IsSubseq(s, Tail(t))

\* C1: the messages written to the transport are, in order, a subsequence
\* of the messages enqueued: none is written twice, no two are written in
\* the opposite of their enqueue order.
C1_WrittenInEnqueueOrder ==
  /\ IsSubseq(written, enqueued)
  /\ \A i, j \in 1..Len(written) : i < j => written[i].id < written[j].id

\* C1 witness: two producers' messages (an audio message and a transcript)
\* were written in their enqueue order, and a later one was got and dropped
C1_Witness ==
  /\ Len(written) >= 2
  /\ \E i, j \in 1..Len(written) : written[i].kind # written[j].kind
  /\ queue = <<>>
  /\ process_task = "get"
  /\ Len(enqueued) > Len(written)

\* C2: once terminate() has returned, nothing is written to the transport
\* any more, and no write is left in progress.
C2_NoWriteAfterTerminate ==
  [][term = "returned" => (written' = written /\ process_task' # "send")]_vars

\* C2 witness: terminate() returned while a write was in progress (its
\* message never written) and messages were still queued
C2_Witness ==
  /\ term = "returned"
  /\ process_task = "cancelled"
  /\ cur # NoMsg
  /\ \A i \in 1..Len(written) : written[i] # cur
  /\ queue # <<>>
  /\ calls = MaxCalls

(***************************************************************************)
(* Claims about the provider call                                          *)
(***************************************************************************)
\* create_speech has ended, by a result or by an exception
CsEnded == cs_pc \in {"returned", "raised"}

\* C3: a failure status other than 429 is answered by no further request
\* and a hard failure that carries the utterance text and the attempt count.
C3_OtherStatusIsFatal ==
  \A i \in 1..Len(outcomes) :
    outcomes[i] = "other_status" =>
      /\ requests = i
      /\ cs_pc = "raised"
      /\ failure.kind = "failed_after_tries"
      /\ failure.text = text
      /\ failure.tries = attempts

Transient == {"429", "timeout"}

\* C4: when the provider only answers 429 or times out, at most 3 requests
\* are issued and the call then fails reporting 3 tries; 429s and timeouts
\* count on one counter, and the k-th wait is 0.5 s * 1.8^(k-1).
C4_BoundedRetry ==
  (\A i \in 1..Len(outcomes) : outcomes[i] \in Transient) =>
    /\ requests <= MaxAttempts
    /\ cs_pc # "returned"
    /\ attempts = Len(sleeps)
    /\ Len(sleeps) \in {Len(outcomes), Len(outcomes) - 1}
    /\ \A k \in 1..Len(sleeps) :
         sleeps[k] * 10 ^ (k - 1) = InitialDelayMs * BackoffTenths ^ (k - 1)
    /\ (Len(outcomes) = MaxAttempts /\ cs_pc # "sleep") =>
         /\ cs_pc = "raised"
         /\ failure = [kind |-> "failed_after_tries", text |-> text,
                       tries |-> MaxAttempts]
    /\ cs_pc = "raised" => Len(outcomes) = MaxAttempts

\* C4 witness: a 429 and two timeouts, in a mix, ended in the failure
C4_Witness ==
  /\ outcomes = <<"timeout", "429", "timeout">>
  /\ cs_pc = "raised"
  /\ failure.tries = 3

\* C5: 429, 429, 200: exactly 3 requests, waits of 0.5 s and 0.9 s between
\* them, and a result with no failure raised.
C5_RecoveryScenario ==
  (Len(outcomes) >= 3 /\ SubSeq(outcomes, 1, 3) = <<"429", "429", "ok">>) =>
    /\ requests = 3
    /\ Len(outcomes) = 3
    /\ sleeps = <<500, 900>>
    /\ cs_pc = "returned"
    /\ failure = NoFailure

\* C5 witness: the scenario ran to its end
C5_Witness ==
  /\ outcomes = <<"429", "429", "ok">>
  /\ CsEnded

(***************************************************************************)
(* Claims about the lipsync detector                                       *)
(***************************************************************************)
\* caller c waits for a lock that only c itself can release
SelfBlocked(c) == pf_pc[c] = "lock" /\ lock_holder = c

\* the recovery of c's call has relaunched the coprocess
Relaunched(c) == pf_faults[c] # <<>> /\ pf_pc[c] \notin {"close", "start"}

\* C6: after one missed deadline and the relaunch, the call is not left
\* waiting forever: it can go on to write the same frame to the new
\* coprocess, and when it ends uncancelled it returns that coprocess's
\* response to that frame.
C6_SingleFaultRecovers ==
  \A c \in Callers :
    (pf_faults[c] = <<"timeout">> /\ Relaunched(c)) =>
      /\ ~SelfBlocked(c)
      /\ (pf_pc[c] = "done" /\ pf_result[c].kind # "CancelledError") =>
           pf_result[c] = [kind |-> "line", frame |-> pf_frame[c],
                           proc |-> process]

\* a step that c's call can take by itself or with the coprocess
PfProgress(c) ==
  \/ Acquire(c)
  \/ DrainDone(c)
  \/ ReadLine(c)
  \/ CloseDone(c)
  \/ RestartDone(c)
  \/ CancelAtLock(c)
  \/ CancelAtAwait(c)

\* C7: a call that has met faults (a missed deadline or a crash) never
\* blocks forever: until it has ended, with a result or a fatal error, it
\* can take a step, or it waits for a lock that another caller holds.
C7_FaultedCallNeverStuck ==
  \A c \in Callers :
    (pf_faults[c] # <<>> /\ ~AtRest(c)) =>
      \/ ENABLED PfProgress(c)
      \/ (pf_pc[c] = "lock" /\ lock_holder \notin {"free", c})

\* C8: at most one frame written to the coprocess awaits its response line.
C8_AtMostOneOutstanding == Len(pending) <= 1

\* C9: a call cancelled while it awaits drain() or readline() returns None,
\* leaves the coprocess as it is (not stopped, not relaunched) and releases
\* the lock.
C9_CancelReturnsNone ==
  [][\A c \in Callers :
       (pf_cancel[c] /\ pf_pc[c] \in {"drain", "read"} /\ pf_pc'[c] # pf_pc[c]) =>
         /\ pf_pc'[c] = "done"
         /\ pf_result'[c].kind = "None"
         /\ process' = process
         /\ alive' = alive
         /\ spawned' = spawned
         /\ lock_holder' = "free"]_vars

\* C9 witness: a call was cancelled while awaiting the response line and
\* returned None; the coprocess it wrote to is still the detector's, the
\* lock is free
C9_Witness ==
  \E c \in Callers :
    /\ pf_pc[c] = "done"
    /\ pf_result[c].kind = "None"
    /\ \E i \in 1..Len(writes) : writes[i] = <<process, pf_frame[c]>>
    /\ process \in alive
    /\ lock_holder = "free"

(***************************************************************************)
(* Claims about the streaming chunk sequence                               *)
(***************************************************************************)
\* C10: a cancellation that reaches the generator at one of its wait points
\* leaves it as a cancellation: the sequence neither ends normally nor
\* raises another exception.
C10_CancellationPropagates ==
  (st_cancelled_at # "none" /\ st_pc \in {"ended", "raised"}) =>
    (st_pc = "raised" /\ st_exc = "CancelledError")

\* the chunk sequence has finished: the generator returned or raised
Finished == st_pc \in {"ended", "raised"}

\* C11: once the chunk sequence has finished (its consumer was cancelled,
\* or it ended otherwise) the Decode Worker is terminated and the pump has
\* stopped: no fragment and no sentinel is put into the worker's input
\* queue any more.
C11_PumpStopsWithSequence ==
  [][Finished => (worker = "terminated" /\ Len(in_q') <= Len(in_q))]_vars

\* a step in which the chunk sequence finishes, or in which a cancellation
\* of its consumer is delivered
EndsSequence ==
  \/ ~Finished /\ Finished'
  \/ st_cancel /\ ~st_cancel'
  \/ pf_cancel[Gen] /\ ~pf_cancel'[Gen]

\* C12: a step that ends or cancels a chunk sequence leaves the coprocess
\* as it is (the same process, still running); and across the utterances
\* of a conversation a coprocess is started once, plus once per fault
\* recovery: a later utterance finds it running and starts none.
C12_CoprocessReused ==
  /\ [][EndsSequence => (process' = process /\ alive' = alive)]_vars
  /\ [](spawned <= 1 + faults)
  /\ [](process # 0 => process \in alive)

\* the first utterance wrote a frame and was cancelled; the second one has
\* had its first chunk processed by the same coprocess
C12_Witness ==
  /\ utterances = 2
  /\ cancels = 1
  /\ ~st_cancel /\ ~pf_cancel[Gen]
  /\ st_pc = "yielded"
  /\ st_lipsync
  /\ Len(yielded) = 1
  /\ st_chunk.frames > 0
  /\ Len(writes) > st_chunk.frames
  /\ process = 1 /\ spawned = 1 /\ alive = {1}

\* C13: in a run without cancellation, of the chunks yielded only the last one yielded can have
\* is_last = true, and once it has been yielded and taken by the consumer
\* the sequence has ended: the generator does not wait for worker output
\* again, with a trace span or without one.
C13_TerminalChunk ==
  /\ \A i \in 1..Len(yielded) : yielded[i].is_last => i = Len(yielded)
  /\ (/\ cancels = 0
      /\ yielded # <<>>
      /\ yielded[Len(yielded)].is_last
      /\ st_pc # "yielded") => st_pc = "ended"

\* C14: the chunks yielded are the chunks the worker produced, in the order
\* it produced them, each once and none skipped: the i-th chunk yielded is
\* the i-th chunk produced, and the chunks still to come wait in the output
\* queue in production order.
C14_ChunkOrder ==
  /\ \A i \in 1..Len(yielded) : yielded[i].id = i
  /\ \A i \in 1..Len(out_q) : out_q[i].id = chunks_made - Len(out_q) + i
  /\ st_pc \in {"spawn", "detect"} =>
       st_chunk.id = Len(yielded) + 1 /\ chunks_made - Len(out_q) = st_chunk.id

\* the second chunk is in lipsync processing while the worker has already
\* produced the third
C14_Witness ==
  /\ st_pc = "detect"
  /\ pf_pc[Gen] \in {"drain", "read"}
  /\ Len(yielded) = 1
  /\ out_q # <<>>

(***************************************************************************)
(* Further claims about the output channel                                 *)
(***************************************************************************)
\* the ids of the messages of a list that carry a span, in list order
RECURSIVE SpanIds(_)
SpanIds(msgs) ==
  IF msgs = <<>> THEN <<>>
  ELSE (IF Head(msgs).span THEN <<Head(msgs).id>> ELSE <<>>)
         \o SpanIds(Tail(msgs))

\* a step in which a call of ws.send_text begins
WriteStarts ==
  /\ process_task' = "send"
  /\ process_task # "send" \/ written' # written

\* C19: a write begins only in a state where the channel is active and the
\* transport is not disconnected; and the spans ended are exactly those of
\* the messages written, each once and in the order of the writes, so a
\* written message's span is ended before the next message is taken and a
\* message that is not written never has its span ended.
C19_WriteGuard ==
  /\ [][WriteStarts => (active /\ ws_state # "DISCONNECTED")]_vars
  /\ [](ended = SpanIds(written))

\* a message with a span was written and its span ended; another one with
\* a span was taken from the queue and dropped, its span not ended
C19_Witness ==
  /\ ended # <<>>
  /\ process_task \in {"get", "done"}
  /\ queue = <<>>
  /\ \E i \in 1..Len(enqueued) :
       /\ enqueued[i].span
       /\ \A j \in 1..Len(written) : written[j] # enqueued[i]
       /\ \A j \in 1..Len(ended) : ended[j] # enqueued[i].id

\* C20: terminate() marks the channel inactive, cancels the task if it is
\* pending and ends only once the task has ended: it returns normally when
\* the task was cancelled (or had left its loop), and it raises when the
\* task ended with another exception, before or during terminate().
C20_TerminateOutcome ==
  /\ term # "idle" => ~active
  /\ (term = "awaiting" /\ TaskPending) => must_cancel
  /\ term \in {"returned", "raised"} => TaskDone
  /\ term = "returned" => process_task \in {"cancelled", "done"}
  /\ term = "raised" => process_task = "failed"
  /\ (term \in {"returned", "raised"} /\ process_task = "failed")
       => term = "raised"

\* a transport write failed and terminate() raised the task's exception
C20_Witness ==
  /\ term = "raised"
  /\ process_task = "failed"
  /\ written # <<>>

(***************************************************************************)
(* Claims about the viseme events                                          *)
(***************************************************************************)
\* the offsets of a list of events never go down in list order
NonDecreasing(events) ==
  \A i \in 1..(Len(events) - 1) :
    events[i].audio_offset <= events[i + 1].audio_offset

\* C15: in the list one detect_lipsync call returns, whatever lines the
\* coprocess answers (empty ones too), the offsets never go down and no two
\* neighbours have the same viseme_id.
C15_EventModeOutput ==
  /\ NonDecreasing(dl_events)
  /\ \A i \in 1..(Len(dl_events) - 1) :
       dl_events[i].viseme_id # dl_events[i + 1].viseme_id

\* C16: every viseme_id detect_lipsync emits is a member of the table
\* ovr_viseme_ids, whatever label the coprocess answers.
C16_VisemeInTable ==
  \A i \in 1..Len(dl_events) : dl_events[i].viseme_id \in ovr_viseme_ids

\* C18: the offsets of the utterance's accumulated events never go down in
\* list order, over all its chunks and whatever their sizes: the events of
\* the chunks done lie before the start of the next chunk, and those of the
\* chunk in work lie at or after it.
C18_UtteranceOffsets ==
  /\ NonDecreasing(IF ev_pc = "detect" THEN ev_acc \o dl_events ELSE ev_acc)
  /\ \A i \in 1..Len(ev_acc) : ev_acc[i].audio_offset < ev_offset
  /\ ev_pc = "detect" =>
       \A i \in 1..Len(dl_events) : dl_events[i].audio_offset >= ev_offset

\* two chunks done, of which the second began off the grid of hundredths,
\* with events from both
C18_Witness ==
  /\ ev_pc = "idle"
  /\ ev_chunks >= 2
  /\ Len(ev_acc) >= 3
  /\ \E i \in 1..Len(ev_acc) :
       /\ ev_acc[i].audio_offset % Hundredth # 0
       /\ i > 1
       /\ i < Len(ev_acc)

\* the events of a list inside the window [from_s, to_s), in list order,
\* rebased to from_s
RECURSIVE InWindow(_, _, _)
InWindow(from_s, to_s, events) ==
  IF events = <<>> THEN <<>>
  ELSE LET e == Head(events)
           rest == InWindow(from_s, to_s, Tail(events))
       IN  IF from_s <= e.audio_offset /\ e.audio_offset < to_s
           THEN <<[audio_offset |-> e.audio_offset - from_s,
                   viseme_id |-> e.viseme_id]>> \o rest
           ELSE rest

\* C17: get_lipsync_events returns, in list order, exactly the events with
\* from_s <= audio_offset < to_s, offset 0 included, each rebased to from_s
\* with its viseme_id unchanged.
C17_WindowQuery ==
  fn_pc = "returned" =>
    fn_ret = InWindow(fn_args.from_s, fn_args.to_s, fn_args.lipsync_events)

(***************************************************************************)
(* Claims about the functions of utils                                     *)
(***************************************************************************)
\* the call of trim_audio has returned
TrimReturned == fn_pc = "returned" /\ fn_args.fn = "trim_audio"

Min2(a, b) == IF a <= b THEN a ELSE b

\* C21: for offset_s >= 0, duration_s >= 0 and total_bytes >=
\* len(audio_buffer), the audio trim_audio returns is no longer than
\* min(durationBytes, len(audio_buffer)), durationBytes being duration_s *
\* 2 * sampling_rate, and the slice starts at an index in
\* 0..len(audio_buffer).
C21_TrimLengthBound ==
  (TrimReturned /\ fn_args.offset_q >= 0 /\ fn_args.duration_q >= 0) =>
    /\ Len(fn_ret.audio) <=
         Min2(SecondsToBytes(fn_args.duration_q, fn_args.sampling_rate),
              fn_args.buffer_len)
    /\ fn_ret.sliced => fn_ret.start \in 0..fn_args.buffer_len

\* C23: convert_linear_audio with an output encoding other than linear16
\* and mu-law fails with an error; it never returns a value for it, None
\* included.
C23_UnsupportedEncodingFails ==
  (/\ fn_pc = "returned"
   /\ fn_args.fn = "convert_linear_audio"
   /\ fn_args.output_encoding \notin {"LINEAR16", "MULAW"})
    => fn_ret.kind = "raise"

\* C28: at most one coprocess started by the detector is alive, and a
\* coprocess that is alive is the one self.process refers to; also when two
\* tasks reach the lazy start together, or a lazy start meets the close and
\* start of a recovery.
C28_SingleCoprocess ==
  /\ Cardinality(alive) <= 1
  /\ \A p \in alive : p = process

\* the is_last chunk has been yielded
LastYielded == \E i \in 1..Len(yielded) : yielded[i].is_last

\* C29: under fair scheduling the consumer is never left waiting forever
\* on the worker's output queue: a sequence that awaits output_queue.get()
\* before its is_last chunk eventually leaves that wait, by getting a chunk,
\* by raising or by the delivery of a cancellation; also when the read of
\* the provider response has failed and no sentinel was put.
C29_SequenceEnds ==
  (st_pc = "get" /\ ~LastYielded) ~> (st_pc # "get")

\* C30: the line a process_frame call returns is the coprocess's response
\* to the frame that call wrote, never the response to a frame of an
\* earlier call.
C30_ResponseCorrespondence ==
  \A c \in Callers :
    (pf_pc[c] = "done" /\ pf_result[c].kind = "line") =>
      pf_result[c].frame = pf_frame[c]

\* a step that puts an item into the worker's input queue
PutsInput == Len(in_q') > Len(in_q)

\* the put is the one send_chunks is due to make: the next fragment of
\* the response, or the sentinel when the response has ended
PutsNextInOrder ==
  /\ pump = "reading"
  /\ \/ /\ frags_left > 0
        /\ in_q' = Append(in_q, frags_left)
        /\ frags_left' = frags_left - 1
        /\ pump' = "reading"
     \/ /\ frags_left = 0
        /\ in_q' = Append(in_q, Sentinel)
        /\ frags_left' = 0
        /\ pump' = "done"

\* a send_chunks task that has ended stays ended; the next utterance gets
\* a new queue and a new task
PumpStaysEnded ==
  \/ pump' = pump
  \/ pump' = "none" /\ in_q' = <<>>

\* C26: send_chunks puts the fragments of the response into the worker's
\* input queue in their order of arrival, none left out, then one sentinel;
\* the sentinel is put only when the response holds no further fragment,
\* and after it the task has ended and puts nothing more into that queue.
C26_PumpOrder ==
  /\ [][PutsInput => PutsNextInOrder]_vars
  /\ [][(pump = "done" \/ pump = "failed") => PumpStaysEnded]_vars
  /\ [](pump = "done" => frags_left = 0)

\* every fragment and then the sentinel were put before the worker took any
C26_Witness ==
  /\ pump = "done"
  /\ in_q = [i \in 1..(Fragments + 1) |->
              IF i <= Fragments THEN Fragments + 1 - i ELSE Sentinel]

\* audio_offset after n rounds of line 136
RECURSIVE Advanced(_, _)
Advanced(x, n) ==
  IF n = 0 THEN x ELSE Round2(Advanced(x, n - 1) + BufferTicks)

\* a call of detect_lipsync has returned and no other has begun
DetectReturned == ev_pc = "idle" /\ ev_chunks > 0

\* C25: the chunks detect_lipsync passes to process_frame are each of
\* exactly buffer_size bytes, consecutive from the first payload byte and
\* inside the input; audio_offset has advanced once per chunk passed; and
\* when the call returns their number is floor(L / buffer_size) for the L
\* payload bytes, so an undersized rest is neither passed nor counted.
C25_FrameWalk ==
  (ev_pc = "detect" \/ DetectReturned) =>
    /\ \A i \in 1..Len(dl_frames) :
         /\ dl_frames[i].len = BufferSize
         /\ dl_frames[i].first = dl_start + (i - 1) * BufferSize
         /\ dl_frames[i].first + BufferSize <= dl_len
    /\ dl_offset = Advanced(dl_entry, Len(dl_frames))
    /\ DetectReturned =>
         Len(dl_frames) =
           (IF dl_len > dl_start THEN dl_len - dl_start ELSE 0) \div BufferSize

\* a call over two frames and a rest has returned: two chunks were passed
C25_Witness ==
  /\ DetectReturned
  /\ Len(dl_frames) = 2
  /\ dl_len > dl_start + 2 * BufferSize

\* C24: detect_lipsync starts framing at byte 44 exactly when its input
\* carries a WAV header, as has_wav_header tells it (bytes 0-4 "RIFF" and
\* bytes 8-12 "WAVE", never for fewer than 12 bytes), and at byte 0 in
\* every other case.
C24_HeaderDetection ==
  (fn_pc = "returned" /\ fn_args.fn = "detect_lipsync") =>
    fn_ret.byte_offset =
      (IF has_wav_header(fn_args.audio_data) THEN WavHeaderBytes ELSE 0)

\* the algorithm of trim_audio as specified: the duration clamped to the
\* end of the stream, the offset rebased to the buffer, the buffer returned
\* unchanged when the duration is not positive or the buffer is shorter
\* than one second, and the slice otherwise
TrimAsSpecified(sampling_rate, buffer, total_bytes, offset_q, duration_q) ==
  LET o == SecondsToBytes(offset_q, sampling_rate)
      u == SecondsToBytes(duration_q, sampling_rate)
      durationBytes == IF o + u > total_bytes THEN total_bytes - o ELSE u
      offsetBytes == Max2(0, o - total_bytes + Len(buffer))
  IN  IF durationBytes <= 0 \/ Len(buffer) < BytesPerSample * sampling_rate
      THEN buffer
      ELSE Slice(buffer, offsetBytes, offsetBytes + durationBytes)

\* C22: for every input trim_audio returns what the specified algorithm
\* returns: the buffer unchanged exactly when durationBytes <= 0 or
\* len(buffer) < 2 * sampling_rate, and buffer[offsetBytes : offsetBytes +
\* durationBytes] otherwise.
C22_TrimAlgorithm ==
  TrimReturned =>
    fn_ret.audio =
      TrimAsSpecified(fn_args.sampling_rate,
                      StreamTail(fn_args.total_bytes, fn_args.buffer_len),
                      fn_args.total_bytes, fn_args.offset_q,
                      fn_args.duration_q)

\* C27: every byte trim_audio returns sits at a stream position p with
\* offsetBytes <= p < offsetBytes + durationBytes, also when a part of the
\* window lies in the history already discarded; stated for the calls in
\* which trim_audio takes a slice of the buffer.
C27_TrimWindow ==
  (TrimReturned /\ fn_ret.sliced) =>
    LET o == SecondsToBytes(fn_args.offset_q, fn_args.sampling_rate)
        u == SecondsToBytes(fn_args.duration_q, fn_args.sampling_rate)
    IN  \A i \in 1..Len(fn_ret.audio) :
          o <= fn_ret.audio[i] /\ fn_ret.audio[i] < o + u

(***************************************************************************)
(* Progress of the output channel                                          *)
(***************************************************************************)
\* the message of the i-th consume call was put into the queue
WasEnqueued(i) == \E k \in 1..Len(enqueued) : enqueued[k].id = i

\* it was written to the transport
WasWritten(i) == \E k \in 1..Len(written) : written[k].id = i

\* the channel was closed, the peer is gone or a write has failed; each of
\* these stays so once it is so
ProgressExcused ==
  \/ ~active
  \/ ws_state = "DISCONNECTED"
  \/ process_task = "failed"

\* C31: under fair scheduling a message enqueued while the channel is
\* active is eventually written to the transport, unless the transport is
\* disconnected, a write fails, or mark_closed() or terminate() is called.
C31_OutputProgress ==
  \A i \in 1..MaxCalls : WasEnqueued(i) ~> (WasWritten(i) \/ ProgressExcused)

\* two messages enqueued while the task waited on the queue were both
\* written, the channel still active and connected
C31_Witness ==
  /\ active
  /\ ws_state = "CONNECTED"
  /\ process_task = "get"
  /\ Len(enqueued) >= 2
  /\ \A k \in 1..Len(enqueued) : WasWritten(enqueued[k].id)

====
